---- MODULE Spec2Model ----
(***************************************************************************)
(* Weekly-report aggregator of the planning application (plans/views.py):  *)
(* save_weekly_report, copy_day_plan, get_weekly_report_details,           *)
(* log_weekly_report_action and the helper append_report_log, over the     *)
(* tables WeeklyReport, WeeklyReportDetail and Box (plans/models.py).      *)
(*                                                                         *)
(* Conventions.  Calendar dates are day numbers, day 0 being a Saturday    *)
(* (2024-01-20); a datetime is [date, time] with the time in seconds.      *)
(* week_start / week_end are sent as ISO datetimes at 00:00:00 and are     *)
(* kept as their day number.  The Persian weekday names are written in     *)
(* Latin letters (shanbe = Saturday ... jome = Friday) and the event box   *)
(* type name is written "event".  Python None is 0 for ids and counts.     *)
(* Log timestamps (timezone.now()) are left out of the log entries.        *)
(***************************************************************************)
EXTENDS Integers, Sequences, FiniteSets, TLC

\* ------------------------------------------------------------------ bounds
MaxBox == 2        \* Box rows that may ever be inserted
MaxLog == 4        \* log entries summed over all reports
MaxLesson == 2     \* Lesson rows of a catalog
MaxChapter == 2    \* Chapter rows of a catalog
MaxCourse == 2     \* Course rows that may ever be inserted
MaxSlot == 2       \* AdvisorAvailability rows that may ever be inserted
MaxOtp == 2        \* LoginOTP rows that may ever be inserted
MaxTime == 300     \* seconds the clock may run

\* ------------------------------------------------- catalog and user tables
None == 0
Students == {1, 2}                 \* accounts.Student rows
Users == {1, 2, 3}                 \* user 1 is an advisor, user 2 is staff, user 3 is neither
Staff == {2}
UserAdvisor == [u \in Users |-> IF u = 1 THEN 1 ELSE None]
AdvisorUser == [a \in {1} |-> 1]
StudentAdvisor == [s \in Students |-> 1]
StudentUser == [s \in Students |-> 10 + s]
Workers == {1, 2}                  \* requests that are served at the same time
Lessons == {1}
Chapters == {1}
BoxTypes == {"study", "event"}

WEEKDAYS == <<"shanbe", "yekshanbe", "doshanbe", "seshanbe", "chaharshanbe", "panjshanbe", "jome">>

WeekdaySet == {WEEKDAYS[i] : i \in 1..7}

weekday_offset == [shanbe |-> 0, yekshanbe |-> 1, doshanbe |-> 2, seshanbe |-> 3, chaharshanbe |-> 4, panjshanbe |-> 5, jome |-> 6]

\* weekday_offset.get(day_name, 0)
OffsetOf(day_name) == IF day_name \in DOMAIN weekday_offset THEN weekday_offset[day_name] ELSE 0

\* datetime.date.weekday(): Monday = 0 ... Sunday = 6; day 0 is a Saturday
weekday(d) == (d + 5) % 7

persian_weekday_mapping == [i \in 0..6 |-> CASE i = 5 -> "shanbe" [] i = 6 -> "yekshanbe" [] i = 0 -> "doshanbe" [] i = 1 -> "seshanbe" [] i = 2 -> "chaharshanbe" [] i = 3 -> "panjshanbe" [] OTHER -> "jome"]

\* datetime.strptime(s, '%H:%M:%S').time(): seconds of the day, or -1 for ValueError
strptime(s) == IF Len(s) = 3 /\ s[1] \in 0..23 /\ s[2] \in 0..59 /\ s[3] \in 0..61 THEN s[1] * 3600 + s[2] * 60 + s[3] ELSE -1

\* datetime.datetime.combine(date, time)
combine(d, t) == [date |-> d, time |-> t]

\* --------------------------------------------------------- request inputs
LessonTask == [start |-> <<8, 0, 0>>, end |-> <<9, 30, 0>>, box_type |-> "study", lesson_id |-> 1, chapter_id |-> 1, optional_tests_count |-> 2, duration_minutes |-> 90, title |-> "bio"]

EventTask == [start |-> <<10, 0, 0>>, end |-> <<11, 0, 0>>, box_type |-> "event", lesson_id |-> 1, chapter_id |-> 1, optional_tests_count |-> 2, duration_minutes |-> 90, title |-> "exam"]

NoLessonTask == [LessonTask EXCEPT !.lesson_id = None, !.chapter_id = 7]

BadTimeTask == [LessonTask EXCEPT !.end = <<25, 0, 0>>]

BadTypeTask == [LessonTask EXCEPT !.box_type = "nope"]

BadLessonTask == [LessonTask EXCEPT !.lesson_id = 7]

TaskInputs == {LessonTask, EventTask, BadTimeTask, BadTypeTask, BadLessonTask}

\* the student ids of requests: the students and an id with no Student row
StudentIdInputs == Students \cup {9}

DayNameInputs == {"yekshanbe", "xday"}

WeekStartInputs == {0}

SeqUpTo(S, n) == UNION {[1..k -> S] : k \in 0..n}

\* the task lists of a day entry: one task of each kind, and a good task
\* followed by one that raises
TaskListInputs == {<<t>> : t \in TaskInputs} \cup {<<LessonTask, BadTimeTask>>}

\* a working day with tasks, a disabled day, a day under an unknown name
DayInputs == [day : {"yekshanbe"}, disabled : {FALSE}, tasks : TaskListInputs] \cup [day : {"yekshanbe"}, disabled : {TRUE}, tasks : {<<LessonTask>>}] \cup [day : {"xday"}, disabled : {FALSE}, tasks : {<<LessonTask>>}]

\* week_end and important_events of a request
HeaderInputs == {[week_end |-> 6, important_events |-> ""], [week_end |-> 13, important_events |-> "konkur"]}

\* a request carries at most one day entry
SaveRequests == {[user |-> 1, student_id |-> s, week_start |-> w, week_end |-> h.week_end, days |-> d, important_events |-> h.important_events] : s \in StudentIdInputs, w \in WeekStartInputs, h \in HeaderInputs, d \in SeqUpTo(DayInputs, 1)}

\* copies asked by the advisor of both students, and one by a user who is no advisor
CopyRequests == [user : {1}, source_student_id : Students, target_student_id : Students, source_date : {0, 1}, target_day_of_week : {"shanbe", "yekshanbe"}] \cup {[user |-> 2, source_student_id |-> 1, target_student_id |-> 2, source_date |-> 1, target_day_of_week |-> "shanbe"]}

\* the requests of the specifications that follow the log
OneDay(task) == <<[day |-> "yekshanbe", disabled |-> FALSE, tasks |-> <<task>>]>>

LogSaveRequests == {r \in SaveRequests : r.student_id = 1 /\ r.days \in {<<>>, OneDay(LessonTask), OneDay(BadTimeTask)}}

LogCopyRequests == {r \in CopyRequests : r.user = 1 /\ r.source_student_id = 1 /\ r.source_date = 1 /\ r.target_day_of_week = "yekshanbe"}

\* the requests of the specification of the two lookups: weeks of seven or
\* fourteen days, one task a week, and the dates asked about
QueryWeekStarts == {0, 7, 14}

QueryDates == {3, 6, 7, 10}

QuerySaveRequests == {[user |-> 1, student_id |-> s, week_start |-> w, week_end |-> w + n, days |-> OneDay(t), important_events |-> ""] : s \in Students, w \in QueryWeekStarts, n \in {6, 13}, t \in {LessonTask, EventTask, NoLessonTask}}

CheckRequests == [student_id : StudentIdInputs, selected_date : QueryDates]

LastRequests == [student_id : StudentIdInputs]

DetailsRequests == [user : {1}, week_start : WeekStartInputs, student_id : Students]

LogRequests == [user : {1, 3}, report_id : {1, 2}, action : {"viewed", "printed"}, additional_data : {None}]

\* ------------------------------------------------------------------ state
VARIABLES reports, details, boxes, nextDetailId, last, workers, catalog, slots, nextSlotId, courses, sessions, notifications, otps, nextOtpId, now

vars == <<reports, details, boxes, nextDetailId, last, workers, catalog, slots, nextSlotId, courses, sessions, notifications, otps, nextOtpId, now>>

\* the tables of the weekly plans, of the courses and of the login codes
planVars == <<reports, details, boxes, nextDetailId, catalog>>

courseVars == <<slots, nextSlotId, courses, sessions, notifications>>

otpVars == <<otps, nextOtpId, now>>

\* reports: WeeklyReport rows, the id of a row is its index
\* details: WeeklyReportDetail rows (a set, rows carry their id)
\* boxes:   Box rows, the id of a row is its index
\* last:    the handler that ran last and its response; for a successful
\*          save or copy also the request it served
\* workers: for each request served concurrently, where its handler stands
\*          and the objects the handler holds in memory
\* catalog: Lesson and Chapter rows, the id of a row is its index; the
\*          handlers only read them
\* slots:   AdvisorAvailability rows (a set, rows carry their id) and
\*          nextSlotId, the id of the next row
\* courses: Course rows, the id of a row is its index
\* sessions: Session rows, a row is known by (course, session_number)
\* notifications: Notification rows, with the course they were sent for
\* otps:    LoginOTP rows (a set, rows carry their id) and nextOtpId
\* now:     the clock, in seconds

DB == [reports |-> reports, details |-> details, boxes |-> boxes, nextDetailId |-> nextDetailId]

RECURSIVE SumLen(_, _)
SumLen(rs, i) == IF i = 0 THEN 0 ELSE Len(rs[i].logs) + SumLen(rs, i - 1)

TotalLog == SumLen(reports, Len(reports))

\* ------------------------------------------------------ append_report_log
LogEntry(action, additional_data, user) == [action |-> action, additional_data |-> additional_data, user |-> user]

\* append_report_log starting from a fresh list instead of report.logs
AppendToFreshList(logs, action, additional_data, user) == <<LogEntry(action, additional_data, user)>>

append_report_log(logs, action, additional_data, user) == Append(logs, LogEntry(action, additional_data, user))

\* ------------------------------------------------------------- get_or_create
Matching(rs, student, week_start) == {i \in DOMAIN rs : rs[i].student = student /\ rs[i].week_start = week_start}

\* the row get_or_create inserts
NewReport(student, week_start, defaults) == [student |-> student, week_start |-> week_start, week_end |-> defaults.week_end, disabled_days |-> defaults.disabled_days, important_events |-> defaults.important_events, logs |-> defaults.logs]

\* get_or_create without its SELECT: a row is inserted whatever exists
CreateWithoutLookup(rs, student, week_start, defaults) == [reports |-> Append(rs, NewReport(student, week_start, defaults)), id |-> Len(rs) + 1, result |-> "created"]

\* WeeklyReport.objects.get_or_create(student=, week_start=, defaults=):
\* result "got", "created" or "multiple" (MultipleObjectsReturned)
get_or_create(rs, student, week_start, defaults) ==
  LET m == Matching(rs, student, week_start)
  IN IF Cardinality(m) = 1 THEN [reports |-> rs, id |-> CHOOSE i \in m : TRUE, result |-> "got"]
     ELSE IF m = {} THEN [reports |-> Append(rs, NewReport(student, week_start, defaults)), id |-> Len(rs) + 1, result |-> "created"]
     ELSE [reports |-> rs, id |-> None, result |-> "multiple"]

\* --------------------------------------------------------- save_weekly_report
\* ",".join([day['day'] for day in days if day.get('disabled')]); the joined
\* string is kept as the sequence of the names it joins
RECURSIVE JoinDisabled(_)
JoinDisabled(days) == IF days = <<>> THEN <<>> ELSE (IF Head(days).disabled THEN <<Head(days).day>> ELSE <<>>) \o JoinDisabled(Tail(days))

\* the (day, task) pairs in the order the two nested loops visit them
RECURSIVE TaskItems(_)
TaskItems(days) == IF days = <<>> THEN <<>> ELSE [i \in 1..Len(Head(days).tasks) |-> [day |-> Head(days).day, disabled |-> Head(days).disabled, task |-> Head(days).tasks[i]]] \o TaskItems(Tail(days))

CreatedLog(req) == [action |-> "Report created", user |-> req.user, data |-> [student_id |-> req.student_id, week_start |-> req.week_start, week_end |-> req.week_end]]

\* the Box built for a task of box type "event"
EventBox(task) == [box_type |-> task.box_type, lesson |-> None, chapter |-> None, optional_tests_count |-> 0, duration_minutes |-> 0, name |-> task.title, is_default |-> TRUE]

\* the Box built for any other task; a chapter id without a Chapter row gives None
LessonBox(task) == [box_type |-> task.box_type, lesson |-> task.lesson_id, chapter |-> IF task.chapter_id \in Chapters THEN task.chapter_id ELSE None, optional_tests_count |-> task.optional_tests_count, duration_minutes |-> task.duration_minutes, name |-> task.title, is_default |-> FALSE]

BuildBox(task) == IF task.box_type = "event" THEN EventBox(task) ELSE LessonBox(task)

\* the lookups of one loop body that raise: strptime, BoxType.objects.get, Lesson.objects.get
TaskRaises(task) ==
  \/ strptime(task.start) = -1
  \/ strptime(task.end) = -1
  \/ task.box_type \notin BoxTypes
  \/ task.box_type # "event" /\ task.lesson_id # None /\ task.lesson_id \notin Lessons

\* the WeeklyReportDetail row of one task, without id and box
DetailFields(rid, week_start, item) ==
  LET box_date == week_start + OffsetOf(item.day)
  IN [report |-> rid, start_time |-> combine(box_date, strptime(item.task.start)), end_time |-> combine(box_date, strptime(item.task.end)), day_of_week |-> item.day, is_disabled |-> item.disabled]

NewDetail(fields, id, box) == [id |-> id, report |-> fields.report, box |-> box, start_time |-> fields.start_time, end_time |-> fields.end_time, day_of_week |-> fields.day_of_week, is_disabled |-> fields.is_disabled]

\* one pass of the inner loop body: Box.objects.create, WeeklyReportDetail.objects.create
CreateTask(db, rid, week_start, item) == [db EXCEPT !.boxes = Append(@, BuildBox(item.task)), !.details = @ \cup {NewDetail(DetailFields(rid, week_start, item), db.nextDetailId, Len(db.boxes) + 1)}, !.nextDetailId = @ + 1]

\* the loops over days and tasks; stops at the first task that raises and
\* keeps what was written before it
RECURSIVE CreateTasks(_, _, _, _)
CreateTasks(db, rid, week_start, items) ==
  IF items = <<>> THEN [db |-> db, ok |-> TRUE]
  ELSE IF TaskRaises(Head(items).task) THEN [db |-> db, ok |-> FALSE]
  ELSE CreateTasks(CreateTask(db, rid, week_start, Head(items)), rid, week_start, Tail(items))

\* save_weekly_report without the delete of the previous details
KeepReportDetails(ds, rid) == ds

\* report.details.all().delete()
DeleteReportDetails(ds, rid) == {d \in ds : d.report # rid}

\* report.save(update_fields=["week_end", "disabled_days", "logs"])
SaveUpdateFields(row, req) == [row EXCEPT !.week_end = req.week_end, !.disabled_days = JoinDisabled(req.days)]

\* the "if not created" branch, run with the in-memory object report: the
\* log is written from the object, important_events is set on the object
\* only and is in no update_fields list
UpdateExisting(db, rid, req, report) == [db EXCEPT !.reports[rid] = [SaveUpdateFields(@, req) EXCEPT !.logs = append_report_log(report.logs, "Report updated", [week_start |-> req.week_start, week_end |-> req.week_end], req.user)], !.details = DeleteReportDetails(@, rid)]

\* everything after get_or_create; report is the object get_or_create returned
SaveBody(db, rid, created, req, report) ==
  LET db1 == IF created THEN db ELSE UpdateExisting(db, rid, req, report)
      logs1 == IF created THEN report.logs ELSE db1.reports[rid].logs
      t == CreateTasks(db1, rid, req.week_start, TaskItems(req.days))
  IN IF t.ok THEN [db |-> [t.db EXCEPT !.reports[rid].logs = append_report_log(logs1, "Report details saved", [days_count |-> Len(req.days)], req.user)], status |-> "success"]
     ELSE [db |-> t.db, status |-> "error"]

SaveDefaults(req) == [week_end |-> req.week_end, disabled_days |-> JoinDisabled(req.days), important_events |-> req.important_events, logs |-> <<CreatedLog(req)>>]

\* the whole handler run on database db
SaveRun(db, req) ==
  IF req.student_id \notin Students THEN [db |-> db, status |-> "error", report |-> None, created |-> FALSE]
  ELSE LET g == get_or_create(db.reports, req.student_id, req.week_start, SaveDefaults(req))
       IN IF g.result = "multiple" THEN [db |-> db, status |-> "error", report |-> None, created |-> FALSE]
          ELSE LET b == SaveBody([db EXCEPT !.reports = g.reports], g.id, g.result = "created", req, g.reports[g.id])
               IN [db |-> b.db, status |-> b.status, report |-> g.id, created |-> g.result = "created"]

\* -------------------------------------------------------------- copy_day_plan
Min(S) == CHOOSE x \in S : \A y \in S : x <= y

\* the rows of a queryset in primary-key order
RECURSIVE ById(_)
ById(ds) == IF ds = {} THEN <<>> ELSE LET d == CHOOSE x \in ds : \A y \in ds : x.id <= y.id IN <<d>> \o ById(ds \ {d})

\* the filter with week_end__gt in place of week_end__gte
CoveringBeforeEnd(rs, student, date) == {i \in DOMAIN rs : rs[i].student = student /\ rs[i].week_start <= date /\ rs[i].week_end > date}

\* WeeklyReport.objects.filter(student=, week_start__lte=, week_end__gte=)
Covering(rs, student, date) == {i \in DOMAIN rs : rs[i].student = student /\ rs[i].week_start <= date /\ rs[i].week_end >= date}

\* WeeklyReportDetail.objects.filter(report=, day_of_week=)
DayDetails(ds, rid, day) == {d \in ds : d.report = rid /\ d.day_of_week = day}

\* Box.objects.create(...) of the copy loop: is_default is not passed
CopyBox(original_box) == [box_type |-> original_box.box_type, lesson |-> original_box.lesson, chapter |-> original_box.chapter, optional_tests_count |-> original_box.optional_tests_count, duration_minutes |-> original_box.duration_minutes, name |-> original_box.name, is_default |-> FALSE]

\* the copy loop linking the new detail to original_box
ReuseOriginalBox(db, detail) == detail.box

\* the box the new detail row references
CopyBoxId(db, detail) == Len(db.boxes) + 1

\* one pass of the copy loop
CopyDetail(db, rid, target_day_of_week, detail) == [db EXCEPT !.boxes = Append(@, CopyBox(db.boxes[detail.box])), !.details = @ \cup {[id |-> db.nextDetailId, report |-> rid, box |-> CopyBoxId(db, detail), start_time |-> detail.start_time, end_time |-> detail.end_time, day_of_week |-> target_day_of_week, is_disabled |-> detail.is_disabled]}, !.nextDetailId = @ + 1]

RECURSIVE CopyDetails(_, _, _, _)
CopyDetails(db, rid, target_day_of_week, rows) == IF rows = <<>> THEN db ELSE CopyDetails(CopyDetail(db, rid, target_day_of_week, Head(rows)), rid, target_day_of_week, Tail(rows))

\* the early returns of copy_day_plan, with the error message they answer
CopyFail(db, error) == [db |-> db, status |-> "error", error |-> error, report |-> None, created |-> FALSE, copied |-> 0]

\* from get_or_create on: the delete, the loop over the (lazy) source
\* queryset, which is evaluated after the delete, and the log entry
CopyBody(db, sid, req) ==
  LET source_day_of_week == persian_weekday_mapping[weekday(req.source_date)]
      g == get_or_create(db.reports, req.target_student_id, db.reports[sid].week_start, [week_end |-> db.reports[sid].week_end, disabled_days |-> <<>>, important_events |-> "", logs |-> <<>>])
  IN IF g.result = "multiple" THEN CopyFail(db, "multiple reports")
     ELSE LET db1 == [db EXCEPT !.reports = g.reports, !.details = @ \ DayDetails(@, g.id, req.target_day_of_week)]
              rows == ById(DayDetails(db1.details, sid, source_day_of_week))
              db2 == CopyDetails(db1, g.id, req.target_day_of_week, rows)
          IN [db |-> [db2 EXCEPT !.reports[g.id].logs = append_report_log(@, "Copied day plan", [source_student_id |-> req.source_student_id, target_day_of_week |-> req.target_day_of_week], req.user)], status |-> "success", report |-> g.id, created |-> g.result = "created", copied |-> Len(rows)]

\* copy_day_plan without the exists() test of the source day
CopyWithoutDetailCheck(db, req) ==
  LET advisor == UserAdvisor[req.user]
      cover == Covering(db.reports, req.source_student_id, req.source_date)
  IN IF advisor = None THEN CopyFail(db, "advisor not found")
     ELSE IF StudentAdvisor[req.source_student_id] # advisor \/ StudentAdvisor[req.target_student_id] # advisor THEN CopyFail(db, "not assigned")
     ELSE IF cover = {} THEN CopyFail(db, "no report")
     ELSE CopyBody(db, Min(cover), req)

\* the whole handler run on database db
CopyRun(db, req) ==
  LET advisor == UserAdvisor[req.user]
      cover == Covering(db.reports, req.source_student_id, req.source_date)
  IN IF advisor = None THEN CopyFail(db, "advisor not found")
     ELSE IF StudentAdvisor[req.source_student_id] # advisor \/ StudentAdvisor[req.target_student_id] # advisor THEN CopyFail(db, "not assigned")
     ELSE IF cover = {} THEN CopyFail(db, "no report")
     ELSE IF DayDetails(db.details, Min(cover), persian_weekday_mapping[weekday(req.source_date)]) = {} THEN CopyFail(db, "no details")
     ELSE CopyBody(db, Min(cover), req)

\* ------------------------------------------------------------------ actions
Fits(db) == Len(db.boxes) <= MaxBox /\ SumLen(db.reports, Len(db.reports)) <= MaxLog

Install(db) ==
  /\ reports' = db.reports
  /\ details' = db.details
  /\ boxes' = db.boxes
  /\ nextDetailId' = db.nextDetailId

save_weekly_report(req) ==
  LET r == SaveRun(DB, req)
  IN /\ Fits(r.db)
     /\ Install(r.db)
     /\ last' = IF r.status = "success" THEN [op |-> "save", status |-> r.status, report |-> r.report, created |-> r.created, req |-> req] ELSE [op |-> "save", status |-> r.status]
     /\ UNCHANGED <<workers, catalog, courseVars, otpVars>>

copy_day_plan(req) ==
  LET r == CopyRun(DB, req)
  IN /\ Fits(r.db)
     /\ Install(r.db)
     /\ last' = IF r.status = "success" THEN [op |-> "copy", status |-> r.status, report |-> r.report, created |-> r.created, copied |-> r.copied, req |-> req] ELSE [op |-> "copy", status |-> r.status, error |-> r.error]
     /\ UNCHANGED <<workers, catalog, courseVars, otpVars>>

\* WeeklyReport.objects.get(week_start=, student_id=) and the "Load Weekly
\* Report" entry; DoesNotExist gives the empty answer, MultipleObjectsReturned
\* is not caught
get_weekly_report_details(req) ==
  LET m == Matching(reports, req.student_id, req.week_start)
      rid == CHOOSE i \in m : TRUE
  IN IF Cardinality(m) = 1
     THEN /\ TotalLog + 1 <= MaxLog
          /\ reports' = [reports EXCEPT ![rid].logs = append_report_log(@, "Load Weekly Report", [week_start |-> req.week_start, student_id |-> req.student_id], req.user)]
          /\ last' = [op |-> "details", status |-> "success", report |-> rid]
          /\ UNCHANGED <<details, boxes, nextDetailId, workers, catalog, courseVars, otpVars>>
     ELSE /\ last' = [op |-> "details", status |-> IF m = {} THEN "empty" ELSE "error"]
          /\ UNCHANGED <<reports, details, boxes, nextDetailId, workers, catalog, courseVars, otpVars>>

\* the permission check of log_weekly_report_action
MayLog(user, report) == user \in Staff \/ user \in {StudentUser[report.student], AdvisorUser[StudentAdvisor[report.student]]}

log_weekly_report_action(req) ==
  IF req.report_id \in DOMAIN reports /\ MayLog(req.user, reports[req.report_id])
  THEN /\ TotalLog + 1 <= MaxLog
       /\ reports' = [reports EXCEPT ![req.report_id].logs = append_report_log(@, req.action, req.additional_data, req.user)]
       /\ last' = [op |-> "log", status |-> "success", report |-> req.report_id]
       /\ UNCHANGED <<details, boxes, nextDetailId, workers, catalog, courseVars, otpVars>>
  ELSE /\ last' = [op |-> "log", status |-> "error"]
       /\ UNCHANGED <<reports, details, boxes, nextDetailId, workers, catalog, courseVars, otpVars>>

\* ------------------------------------------------------------ the lookups
\* WeeklyReport.objects.filter(student=, week_start__gt=)
FutureReports(rs, student, date) == {i \in DOMAIN rs : rs[i].student = student /\ rs[i].week_start > date}

\* order_by('-week_start').first() over the future reports
FarthestFuture(rs, student, date) == CHOOSE i \in FutureReports(rs, student, date) : \A j \in FutureReports(rs, student, date) : rs[i].week_start > rs[j].week_start \/ (rs[i].week_start = rs[j].week_start /\ i <= j)

\* order_by('week_start').first() over the future reports
NearestFuture(rs, student, date) == CHOOSE i \in FutureReports(rs, student, date) : \A j \in FutureReports(rs, student, date) : rs[i].week_start < rs[j].week_start \/ (rs[i].week_start = rs[j].week_start /\ i <= j)

\* the JSON body of check_weekly_report for a report
Bounds(kind, report) == [exists |-> kind, week_start |-> report.week_start, week_end |-> report.week_end]

\* "exists" is "current", "future" or the JSON false, written "false"
check_weekly_report(req) ==
  /\ last' = IF req.student_id \notin Students THEN [op |-> "check", status |-> 400]
             ELSE IF Covering(reports, req.student_id, req.selected_date) # {}
                  THEN [op |-> "check", status |-> 200, req |-> req, body |-> Bounds("current", reports[Min(Covering(reports, req.student_id, req.selected_date))])]
             ELSE IF FutureReports(reports, req.student_id, req.selected_date) # {}
                  THEN [op |-> "check", status |-> 200, req |-> req, body |-> Bounds("future", reports[NearestFuture(reports, req.student_id, req.selected_date)])]
             ELSE [op |-> "check", status |-> 200, req |-> req, body |-> [exists |-> "false"]]
  /\ UNCHANGED <<reports, details, boxes, nextDetailId, workers, catalog, courseVars, otpVars>>

\* WeeklyReport.objects.filter(student=).order_by('week_start').first()
OldestReport(rs, student) == CHOOSE i \in DOMAIN rs : rs[i].student = student /\ \A j \in DOMAIN rs : rs[j].student = student => (rs[i].week_start < rs[j].week_start \/ (rs[i].week_start = rs[j].week_start /\ i <= j))

\* WeeklyReport.objects.filter(student=).order_by('-week_start').first()
LatestReport(rs, student) == CHOOSE i \in DOMAIN rs : rs[i].student = student /\ \A j \in DOMAIN rs : rs[j].student = student => (rs[i].week_start > rs[j].week_start \/ (rs[i].week_start = rs[j].week_start /\ i <= j))

\* WeeklyReportDetail.objects.filter(report=, box__lesson__isnull=False)
LessonDetails(ds, bs, rid) == {d \in ds : d.report = rid /\ bs[d.box].lesson # None}

\* one entry of 'tasks'; idx is Python's weekday() of the start time
Task(detail, box) ==
  LET idx == weekday(detail.start_time.date)
  IN [lesson_id |-> box.lesson, chapter_id |-> box.chapter, optional_tests_count |-> box.optional_tests_count, duration_minutes |-> box.duration_minutes, day_of_week |-> WEEKDAYS[idx + 1]]

Tasks(rows, bs) == [i \in DOMAIN rows |-> Task(rows[i], bs[rows[i].box])]

get_last_weekly_report(req) ==
  /\ last' = IF req.student_id \notin Students THEN [op |-> "latest", status |-> 400]
             ELSE IF \A i \in DOMAIN reports : reports[i].student # req.student_id THEN [op |-> "latest", status |-> 200, req |-> req, tasks |-> <<>>]
             ELSE [op |-> "latest", status |-> 200, req |-> req, tasks |-> Tasks(ById(LessonDetails(details, boxes, LatestReport(reports, req.student_id))), boxes)]
  /\ UNCHANGED <<reports, details, boxes, nextDetailId, workers, catalog, courseVars, otpVars>>

\* ----------------------------------------------------------- lesson lists
\* Names are transliterated: tajrobi, riazi and ensani are the three majors,
\* davazdahom, yazdahom and dahom the grades 12, 11 and 10.
MAJOR_SUBJECTS == [tajrobi |-> <<"zist", "riazi", "shimi", "fizik", "zamin">>,
                   riazi |-> <<"hesaban", "shimi", "gosaste", "fizik", "hendese">>,
                   ensani |-> <<"jameshenasi", "falsafe", "riazi", "amar", "ravanshenasi", "eghtesad", "olum o fonun", "mantegh", "tarikh", "joghrafia">>]

GENERAL_SUBJECTS == <<"adabiat", "arabi", "dini", "zaban">>

GRADE_ORDER == [davazdahom |-> 0, yazdahom |-> 1, dahom |-> 2]

MAJOR_TO_CODE == [tajrobi |-> "T", riazi |-> "R", ensani |-> "E"]

\* student.major.name and student.grade.name
StudentMajor == [s \in Students |-> IF s = 1 THEN "tajrobi" ELSE "riazi"]

StudentGrade == [s \in Students |-> IF s = 1 THEN "davazdahom" ELSE "dahom"]

\* Chapter.track is a nullable CharField
NullTrack == "NULL"

\* the characters of the track values
TrackText == [T |-> <<"T">>, R |-> <<"R">>, t |-> <<"t">>, blank |-> <<>>]

TrackInputs == {"T", "R", "t", "blank", NullTrack}

\* Python's  code in track  for a one-letter code
Contains(track, code) == \E i \in DOMAIN TrackText[track] : TrackText[track][i] = code

upper(c) == IF c = "t" THEN "T" ELSE c

\* track__icontains=code for a one-letter code; NULL matches nothing
IContains(track, code) == track # NullTrack /\ \E i \in DOMAIN TrackText[track] : upper(TrackText[track][i]) = upper(code)

\* the catalogs the lesson lists are computed from
LessonInputs == [name : {"zist", "adabiat"}, grade : {"davazdahom", "dahom"}]

ChapterInputs == [lesson : 1..MaxLesson, track : TrackInputs]

CatalogInputs == {c \in [lessons : SeqUpTo(LessonInputs, MaxLesson), chapters : SeqUpTo(ChapterInputs, MaxChapter)] : \A i \in DOMAIN c.chapters : c.chapters[i].lesson <= Len(c.lessons)}

\* the catalog of the saved plans: lesson 1 with its chapter 1
OneLessonCatalog == [lessons |-> <<[name |-> "zist", grade |-> "davazdahom"]>>, chapters |-> <<[lesson |-> 1, track |-> "T"]>>]

\* Chapter.objects.filter(lesson=lesson)
LessonChapters(cat, lesson) == {i \in DOMAIN cat.chapters : cat.chapters[i].lesson = lesson}

\* name in a list, and list.index(name) with 999 for ValueError
InList(name, list) == \E i \in DOMAIN list : list[i] = name

index(list, name) == IF InList(name, list) THEN (CHOOSE i \in DOMAIN list : list[i] = name /\ \A j \in 1..(i - 1) : list[j] # name) - 1 ELSE 999

\* GRADE_ORDER.get(grade, 999)
grade_idx(grade) == IF grade \in DOMAIN GRADE_ORDER THEN GRADE_ORDER[grade] ELSE 999

major_sort_key(cat, major_list, lesson) == <<index(major_list, cat.lessons[lesson].name), grade_idx(cat.lessons[lesson].grade)>>

general_sort_key(cat, lesson) == <<index(GENERAL_SUBJECTS, cat.lessons[lesson].name), grade_idx(cat.lessons[lesson].grade)>>

\* the order of Python tuples
KeyLess(a, b) == a[1] < b[1] \/ (a[1] = b[1] /\ a[2] < b[2])

Without(s, i) == SubSeq(s, 1, i - 1) \o SubSeq(s, i + 1, Len(s))

\* list.sort(key=): a stable sort of the entries [key, lesson]
RECURSIVE sort(_)
sort(s) == IF s = <<>> THEN <<>>
           ELSE LET i == CHOOSE i \in DOMAIN s : (\A j \in DOMAIN s : ~KeyLess(s[j].key, s[i].key)) /\ (\A j \in 1..(i - 1) : KeyLess(s[i].key, s[j].key))
                IN <<s[i].lesson>> \o sort(Without(s, i))

Unbound == "unbound"

\* one turn of the loop of sort_lessons_for_student; lmaj keeps the value
\* of the turn before when the track has none of T, R and E
Turn(cat, user_major, major_list, acc, lesson) ==
  LET chapters == LessonChapters(cat, lesson)
      maj == cat.chapters[Min(chapters)].track
      lmaj == IF Contains(maj, "T") THEN "tajrobi" ELSE IF Contains(maj, "R") THEN "riazi" ELSE IF Contains(maj, "E") THEN "ensani" ELSE acc.lmaj
  IN IF acc.raised # "" THEN acc
     ELSE IF chapters = {} THEN [acc EXCEPT !.raised = "AttributeError"]
     ELSE IF maj = NullTrack THEN [acc EXCEPT !.raised = "TypeError"]
     ELSE IF InList(cat.lessons[lesson].name, major_list) THEN [acc EXCEPT !.lmaj = lmaj, !.major_lessons = Append(@, lesson)]
     ELSE IF lmaj = Unbound THEN [acc EXCEPT !.raised = "UnboundLocalError"]
     ELSE IF user_major = lmaj THEN [acc EXCEPT !.lmaj = lmaj, !.general_lessons = Append(@, lesson)]
     ELSE [acc EXCEPT !.lmaj = lmaj]

\* the loop over Lesson.objects.all(), up to lesson n
RECURSIVE Loop(_, _, _, _)
Loop(cat, user_major, major_list, n) ==
  IF n = 0 THEN [lmaj |-> Unbound, major_lessons |-> <<>>, general_lessons |-> <<>>, raised |-> ""]
  ELSE Turn(cat, user_major, major_list, Loop(cat, user_major, major_list, n - 1), n)

sort_lessons_for_student(cat, student) ==
  LET user_major == StudentMajor[student]
      major_list == MAJOR_SUBJECTS[user_major]
      acc == Loop(cat, user_major, major_list, Len(cat.lessons))
  IN IF acc.raised # "" THEN [status |-> "raised", exception |-> acc.raised]
     ELSE [status |-> "returned",
           specialized_lessons |-> sort([i \in DOMAIN acc.major_lessons |-> [key |-> major_sort_key(cat, major_list, acc.major_lessons[i]), lesson |-> acc.major_lessons[i]]]),
           general_lessons |-> sort([i \in DOMAIN acc.general_lessons |-> [key |-> general_sort_key(cat, acc.general_lessons[i]), lesson |-> acc.general_lessons[i]]])]

\* plan_view and move_lesson_to_end call sort_lessons_for_student for a student
SortLessons(student) ==
  /\ last' = [op |-> "sort", student |-> student] @@ sort_lessons_for_student(catalog, student)
  /\ UNCHANGED <<reports, details, boxes, nextDetailId, workers, catalog, courseVars, otpVars>>

\* the lessons of a list, in the order of Lesson.objects.all()
RECURSIVE Select(_, _)
Select(n, keep) == IF n = 0 THEN <<>> ELSE IF n \in keep THEN Append(Select(n - 1, keep), n) ELSE Select(n - 1, keep)

\* the serialized lesson
LessonData(cat, lesson) == [id |-> lesson, name |-> cat.lessons[lesson].name, grade |-> cat.lessons[lesson].grade]

\* the else branch taken for every lesson
AllTracked(cat, tracked, major_list) == tracked

\* the lessons left to the else branch of  if lesson.name in major_list
Others(cat, tracked, major_list) == {l \in tracked : ~InList(cat.lessons[l].name, major_list)}

get_lessons_for_student(req) ==
  LET student_major == StudentMajor[req.student_id]
      student_major_code == MAJOR_TO_CODE[student_major]
      major_list == MAJOR_SUBJECTS[student_major]
      tracked == {l \in DOMAIN catalog.lessons : \E c \in LessonChapters(catalog, l) : IContains(catalog.chapters[c].track, student_major_code)}
      specialized_lessons == Select(Len(catalog.lessons), {l \in tracked : InList(catalog.lessons[l].name, major_list)})
      general_lessons == Select(Len(catalog.lessons), Others(catalog, tracked, major_list))
  IN /\ last' = IF req.student_id \notin Students THEN [op |-> "lessons", status |-> 400]
                ELSE [op |-> "lessons", status |-> 200, req |-> req, major_code |-> student_major_code,
                      specialized_lessons |-> [i \in DOMAIN specialized_lessons |-> LessonData(catalog, specialized_lessons[i])],
                      general_lessons |-> [i \in DOMAIN general_lessons |-> LessonData(catalog, general_lessons[i])]]
     /\ UNCHANGED <<reports, details, boxes, nextDetailId, workers, catalog, courseVars, otpVars>>

\* ------------------------------------------------------------ get_chapters
\* Chapter rows with their number and name, after one row that is always there
ChapterRowInputs == [lesson : {1, 2}, track : {"T", "R"}, chapter_number : {1, 2}, name : {"a", "b"}]

ChapterCatalogInputs == {[lessons |-> <<[name |-> "zist", grade |-> "davazdahom"], [name |-> "zist", grade |-> "dahom"]>>, chapters |-> <<[lesson |-> 1, track |-> "T", chapter_number |-> 2, name |-> "b"]>> \o rows] : rows \in SeqUpTo(ChapterRowInputs, MaxChapter)}

ChapterRequests == [lesson_id : {1, 2}, grade : {"davazdahom", "dahom"}, major_code : {"", "T"}]

\* Chapter.objects.filter(lesson_id=, lesson__grade=) and, with a major_code,
\* .filter(track__icontains=major_code)
ChapterQuery(cat, req) == {c \in DOMAIN cat.chapters : /\ cat.chapters[c].lesson = req.lesson_id
                                                        /\ cat.lessons[cat.chapters[c].lesson].grade = req.grade
                                                        /\ (req.major_code # "" => IContains(cat.chapters[c].track, req.major_code))}

\* order_by("chapter_number"): the orders the database may return the rows
\* in; rows of equal chapter_number come in any order
Ordered(cat, ids) == {qs \in [1..Cardinality(ids) -> ids] : /\ \A i, j \in DOMAIN qs : i < j => (qs[i] # qs[j] /\ cat.chapters[qs[i]].chapter_number <= cat.chapters[qs[j]].chapter_number)}

\* the key kept in 'seen'
ChapterKey(cat, c) == <<cat.chapters[c].chapter_number, cat.chapters[c].name>>

\* the loop without the test of 'seen'
KeepAll(cat, qs, i) == TRUE

\* the row at place i is kept when no row before it has its key
NotSeen(cat, qs, i) == \A j \in 1..(i - 1) : ChapterKey(cat, qs[j]) # ChapterKey(cat, qs[i])

\* the entry of a chapter; text is "<chapter_number> - <name>"
ChapterEntry(cat, c) == [id |-> c, text |-> <<cat.chapters[c].chapter_number, " - ", cat.chapters[c].name>>]

RECURSIVE chapter_list(_, _, _)
chapter_list(cat, qs, n) == IF n = 0 THEN <<>>
                            ELSE IF NotSeen(cat, qs, n) THEN Append(chapter_list(cat, qs, n - 1), ChapterEntry(cat, qs[n]))
                            ELSE chapter_list(cat, qs, n - 1)

get_chapters(req) ==
  /\ \E qs \in Ordered(catalog, ChapterQuery(catalog, req)) : last' = [op |-> "chapters", req |-> req, chapter_list |-> chapter_list(catalog, qs, Len(qs))]
  /\ UNCHANGED <<reports, details, boxes, nextDetailId, workers, catalog, courseVars, otpVars>>

\* --------------------------------------------------- courses and sessions
\* Course.DAY_CHOICES: the codes, and the codes by their label
DAY_LABELS == {"Saturday", "Sunday", "Monday", "Tuesday", "Wednesday", "Thursday", "Friday"}

DAY_FA_TO_EN == [shanbe |-> "Saturday", yekshanbe |-> "Sunday", doshanbe |-> "Monday", seshanbe |-> "Tuesday", chaharshanbe |-> "Wednesday", panjshanbe |-> "Thursday", jome |-> "Friday"]

PY_WEEKDAY_MAP == [Monday |-> 0, Tuesday |-> 1, Wednesday |-> 2, Thursday |-> 3, Friday |-> 4, Saturday |-> 5, Sunday |-> 6]

normalize_day_code(value) == IF value \in DAY_LABELS THEN value ELSE IF value \in DOMAIN DAY_FA_TO_EN THEN DAY_FA_TO_EN[value] ELSE value

\* strptime(value, '%H:%M').time() of a text <<hours, minutes>>, in seconds
\* of the day, and strftime('%H:%M') back
TimeRaises(value) == value[1] > 23 \/ value[2] > 59

parse_time_string(value) == value[1] * 3600 + value[2] * 60

strftime(time) == <<time \div 3600, (time % 3600) \div 60>>

Advisors == {1}

\* the requests of the staff user 2, of the advisor's user 1 and of user 3
SlotRequests == [user : {2}, advisor_id : Advisors, day_of_week : {"Saturday", "yekshanbe"}, start_time : {<<10, 0>>}, end_time : {<<11, 0>>}, max_students : {1}] \cup [user : {1, 2}, advisor_id : Advisors, day_of_week : {"Saturday"}, start_time : {<<10, 0>>}, end_time : {<<9, 0>>}, max_students : {1}]

DeleteSlotRequests == [user : {2}, availability_id : 1..MaxSlot]

AssignRequests == [user : {2}, student_id : {1}, advisor_id : Advisors, day_of_week : {"Saturday", "Sunday"}, start_time : {<<10, 0>>}, start_date : {0, 1}] \cup [user : {1}, student_id : {1}, advisor_id : Advisors, day_of_week : {"Saturday"}, start_time : {<<10, 0>>}, start_date : {0}]

\* the data of a PATCH: the keys that were sent, with their values
PatchInputs == {[is_active |-> FALSE], [is_active |-> TRUE], [day_of_week |-> "yekshanbe", start_date |-> 1], [day_of_week |-> "Saturday"], [start_date |-> 7], [start_date |-> 8]}

CourseUpdateRequests == [user : {2}, course : 1..MaxCourse, partial : {TRUE}, data : PatchInputs] \cup [user : {1, 3}, course : {1}, partial : {TRUE}, data : {[is_active |-> FALSE], [start_date |-> 7]}] \cup [user : {2}, course : {1}, partial : {FALSE}, data : {[start_date |-> 7]}]

\* Course.objects.filter(advisor=, day_of_week=, start_time=, is_active=True)
ActiveCourses(cs, advisor, day, time) == {c \in DOMAIN cs : cs[c].advisor = advisor /\ cs[c].day_of_week = day /\ cs[c].start_time = time /\ cs[c].is_active}

\* AdvisorAvailability.objects.filter(advisor=, day_of_week=, start_time=)
Availability(ss, advisor, day, time) == {a \in ss : a.advisor = advisor /\ a.day_of_week = day /\ a.start_time = time}

\* create_advisor_availability_slot, by a staff user; the table is unique
\* on (advisor, day_of_week, start_time)
admin_advisor_add_availability(req) ==
  LET day_code == normalize_day_code(req.day_of_week)
      start_time == parse_time_string(req.start_time)
      end_time == parse_time_string(req.end_time)
      fails == IF req.user \notin Staff THEN 403
               ELSE IF req.advisor_id \notin Advisors THEN 404
               ELSE IF day_code \notin DAY_LABELS \/ TimeRaises(req.start_time) \/ TimeRaises(req.end_time) \/ end_time <= start_time \/ req.max_students < 1 THEN 400
               ELSE IF Availability(slots, req.advisor_id, day_code, start_time) # {} THEN 400
               ELSE 0
  IN /\ fails = 0 => nextSlotId <= MaxSlot
     /\ slots' = IF fails # 0 THEN slots ELSE slots \cup {[id |-> nextSlotId, advisor |-> req.advisor_id, day_of_week |-> day_code, start_time |-> start_time, end_time |-> end_time, max_students |-> req.max_students]}
     /\ nextSlotId' = IF fails # 0 THEN nextSlotId ELSE nextSlotId + 1
     /\ last' = [op |-> "add_availability", status |-> IF fails # 0 THEN fails ELSE 201]
     /\ UNCHANGED <<courses, sessions, notifications, planVars, otpVars, workers>>

admin_advisor_delete_availability(req) ==
  LET found == {a \in slots : a.id = req.availability_id}
      availability == CHOOSE a \in found : TRUE
      fails == IF req.user \notin Staff THEN 403
               ELSE IF found = {} THEN 404
               ELSE IF ActiveCourses(courses, availability.advisor, availability.day_of_week, availability.start_time) # {} THEN 400
               ELSE 0
  IN /\ slots' = IF fails # 0 THEN slots ELSE slots \ found
     /\ last' = [op |-> "delete_availability", status |-> IF fails # 0 THEN fails ELSE 200]
     /\ UNCHANGED <<nextSlotId, courses, sessions, notifications, planVars, otpVars, workers>>

\* migration 0012 adds payment_notification_sent, default False
NewCourse(req) == [student |-> req.student_id, advisor |-> req.advisor_id, day_of_week |-> req.day_of_week, start_time |-> parse_time_string(req.start_time), start_date |-> req.start_date, is_active |-> TRUE, payment_notification_sent |-> FALSE]

\* the loop of assign_student_view: sessions 1 to 4, a week apart
NewSessions(course, start_date) == {[course |-> course, session_number |-> i, date |-> start_date + 7 * (i - 1), is_completed |-> FALSE] : i \in 1..4}

\* the test of the free place in assign_student_view: the status it fails with, or 0
AssignFails(ss, cs, req) ==
  IF req.user \notin Staff THEN 403
  ELSE IF req.student_id \notin Students \/ req.advisor_id \notin Advisors \/ TimeRaises(req.start_time) THEN 500
  ELSE IF Availability(ss, req.advisor_id, req.day_of_week, parse_time_string(req.start_time)) = {} THEN 400
  ELSE IF Cardinality(ActiveCourses(cs, req.advisor_id, req.day_of_week, parse_time_string(req.start_time))) >= (CHOOSE a \in Availability(ss, req.advisor_id, req.day_of_week, parse_time_string(req.start_time)) : TRUE).max_students THEN 400
  ELSE 0

assign_student_view(req) ==
  LET fails == AssignFails(slots, courses, req)
  IN /\ fails = 0 => Len(courses) < MaxCourse
     /\ courses' = IF fails # 0 THEN courses ELSE Append(courses, NewCourse(req))
     /\ sessions' = IF fails # 0 THEN sessions ELSE sessions \cup NewSessions(Len(courses) + 1, req.start_date)
     /\ last' = IF fails # 0 THEN [op |-> "assign", status |-> fails] ELSE [op |-> "assign", status |-> 201, course |-> Len(courses) + 1]
     /\ UNCHANGED <<slots, nextSlotId, notifications, planVars, otpVars, workers>>

\* get_queryset of CourseViewSet: the courses a user may load
Visible(cs, user) == IF user \in Staff THEN DOMAIN cs ELSE {c \in DOMAIN cs : UserAdvisor[user] # None /\ cs[c].advisor = UserAdvisor[user]}

schedule_fields == {"day_of_week", "start_time", "start_date"}

\* data.get(field, default)
Get(data, field, default) == IF field \in DOMAIN data THEN data[field] ELSE default

\* the schedule part of CourseViewSet.update: the status it fails with, or 0
ScheduleFails(ss, cs, req) ==
  LET instance == cs[req.course]
      normalized_day == normalize_day_code(Get(req.data, "day_of_week", instance.day_of_week))
      time_value == Get(req.data, "start_time", strftime(instance.start_time))
      parsed_start_date == Get(req.data, "start_date", instance.start_date)
      availability == Availability(ss, instance.advisor, normalized_day, parse_time_string(time_value))
  IN IF req.user \notin Staff THEN 403
     ELSE IF normalized_day \notin DAY_LABELS \/ TimeRaises(time_value) THEN 400
     ELSE IF weekday(parsed_start_date) # PY_WEEKDAY_MAP[normalized_day] THEN 400
     ELSE IF availability = {} THEN 400
     ELSE IF Cardinality(ActiveCourses(cs, instance.advisor, normalized_day, parse_time_string(time_value)) \ {req.course}) >= (CHOOSE a \in availability : TRUE).max_students THEN 400
     ELSE 0

\* the data after the schedule part: the three schedule fields are set
Normalized(cs, req) ==
  LET instance == cs[req.course]
  IN [f \in DOMAIN req.data \cup schedule_fields |->
        IF f = "day_of_week" THEN normalize_day_code(Get(req.data, "day_of_week", instance.day_of_week))
        ELSE IF f = "start_time" THEN parse_time_string(Get(req.data, "start_time", strftime(instance.start_time)))
        ELSE IF f = "start_date" THEN Get(req.data, "start_date", instance.start_date)
        ELSE req.data[f]]

\* serializer.save(): the fields of data are written to the row
Written(row, data) == [f \in DOMAIN row |-> IF f \in DOMAIN data THEN data[f] ELSE row[f]]

\* a PUT must carry the required fields of CourseSerializer
required_fields == {"student", "advisor", "day_of_week", "start_time", "start_date"}

\* the sessions left as they are
KeepDates(ss, course, base_date) == ss

\* _synchronize_course_sessions
synchronize_course_sessions(ss, course, base_date) == {IF s.course = course THEN [s EXCEPT !.date = base_date + 7 * (s.session_number - 1)] ELSE s : s \in ss}

CourseUpdate(req) ==
  LET provided == schedule_fields \cap DOMAIN req.data
      data == IF provided = {} THEN req.data ELSE Normalized(courses, req)
      fails == IF req.course \notin Visible(courses, req.user) THEN 404
               ELSE IF provided # {} /\ ScheduleFails(slots, courses, req) # 0 THEN ScheduleFails(slots, courses, req)
               ELSE IF ~req.partial /\ ~(required_fields \subseteq DOMAIN data) THEN 400
               ELSE IF req.user \notin Staff /\ UserAdvisor[req.user] = None THEN 403
               ELSE 0
  IN /\ courses' = IF fails # 0 THEN courses ELSE [courses EXCEPT ![req.course] = Written(@, data)]
     /\ sessions' = IF fails # 0 \/ provided = {} THEN sessions ELSE synchronize_course_sessions(sessions, req.course, data["start_date"])
     /\ last' = IF fails # 0 THEN [op |-> "course_update", status |-> fails] ELSE [op |-> "course_update", status |-> 200, course |-> req.course, schedule_changed |-> provided # {}]
     /\ UNCHANGED <<slots, nextSlotId, notifications, planVars, otpVars, workers>>

\* ------------------------------------------------ SessionViewSet.update
\* the requests of the specification of the session updates: a slot on
\* Saturday and one on Sunday, a course on each, and the updates of their sessions
SessionSlotRequests == {r \in SlotRequests : r.user = 2 /\ r.end_time = <<11, 0>>}

SessionAssignRequests == {r \in AssignRequests : r.user = 2 /\ ((r.day_of_week = "Saturday" /\ r.start_date = 0) \/ (r.day_of_week = "Sunday" /\ r.start_date = 1))}

RescheduleRequests == [user : {2}, course : {1}, partial : {TRUE}, data : {[start_date |-> 7]}]

SessionUpdateRequests == [user : {2}, course : {1}, session_number : 1..4, data : {[is_completed |-> TRUE], [is_completed |-> FALSE]}] \cup [user : {2}, course : {2}, session_number : 1..4, data : {[is_completed |-> TRUE]}] \cup [user : {3}, course : {1}, session_number : {2}, data : {[date |-> 3]}]

\* IsOwnerOrAdminOrAdvisor for a session
MayTouch(user, course) == user \in Staff \/ user = StudentUser[course.student] \/ user = AdvisorUser[course.advisor]

\* the test before _send_payment_notification without payment_notification_sent
NotifyAgain(cs, ss, course) == \A s \in ss : s.course = course => s.is_completed

\* the test before _send_payment_notification
NotifyDue(cs, ss, course) == ~cs[course].payment_notification_sent /\ \A s \in ss : s.course = course => s.is_completed

\* SessionViewSet.update with perform_update and _send_payment_notification
SessionUpdate(req) ==
  LET found == {s \in sessions : s.course = req.course /\ s.session_number = req.session_number}
      instance == CHOOSE s \in found : TRUE
      was_completed == instance.is_completed
      saved == Written(instance, req.data)
      after == (sessions \ found) \cup {saved}
      fails == IF found = {} THEN 404 ELSE IF ~MayTouch(req.user, courses[req.course]) THEN 403 ELSE 0
      notify == fails = 0 /\ ~was_completed /\ saved.is_completed /\ saved.session_number = 4 /\ NotifyDue(courses, after, req.course)
  IN /\ sessions' = IF fails # 0 THEN sessions ELSE after
     /\ notifications' = IF notify THEN Append(notifications, [course |-> req.course, sender |-> req.user]) ELSE notifications
     /\ courses' = IF notify THEN [courses EXCEPT ![req.course].payment_notification_sent = TRUE] ELSE courses
     /\ last' = IF fails # 0 THEN [op |-> "session_update", status |-> fails] ELSE [op |-> "session_update", status |-> 200, course |-> req.course, session_number |-> saved.session_number, was_completed |-> was_completed, notified |-> notify]
     /\ UNCHANGED <<slots, nextSlotId, planVars, otpVars, workers>>

\* ------------------------------------------------------ login with a code
OTP_RESEND_INTERVAL == 60

OTP_CODE_TTL == 5 * 60

OTP_MAX_ATTEMPTS == 5

\* the phone numbers of the requests: one number in three spellings, and the number of no user
PH_LOCAL == <<"0", "9", "1", "2", "0", "0", "0", "0", "0", "0", "1">>

PH_DASHED == <<"0", "9", "1", "2", "-", "0", "0", "0", "-", "0", "0", "0", "1">>

PH_TEN == <<"9", "1", "2", "0", "0", "0", "0", "0", "0", "1">>

PH_OTHER == <<"0", "9", "3", "5", "0", "0", "0", "0", "0", "0", "2">>

\* a phone number is the sequence of its characters
DigitChars == {"0", "1", "2", "3", "4", "5", "6", "7", "8", "9"}

IsDigit(c) == c \in DigitChars

IsPhoneChar(c) == c \in DigitChars \cup {"+"}

\* re.sub(r'\D', '', value)
digits(value) == SelectSeq(value, IsDigit)

StartsWith(value, prefix) == Len(value) >= Len(prefix) /\ SubSeq(value, 1, Len(prefix)) = prefix

Drop(value, n) == SubSeq(value, n + 1, Len(value))

\* normalize_phone_number, for a value written with ASCII digits
normalize_phone_number(value) ==
  LET kept == SelectSeq(value, IsPhoneChar)
      plus == IF StartsWith(kept, <<"0", "0">>) THEN <<"+">> \o Drop(kept, 2) ELSE kept
  IN IF StartsWith(plus, <<"0">>) /\ Len(plus) = 11 THEN <<"+", "9", "8">> \o Drop(plus, 1) ELSE plus

_candidate_phone_values(normalized_phone) ==
  LET d == digits(normalized_phone)
      last_ten == Drop(d, Len(d) - 10)
  IN ({normalized_phone} \cup (IF Len(d) >= 10 THEN {last_ten, <<"0">> \o last_ten, <<"+", "9", "8">> \o last_ten} ELSE {})) \ {<<>>}

\* Profile.phone_number of the users: user 1 has a phone number, written as typed
ProfilePhone == [u \in Users |-> IF u = 1 THEN PH_LOCAL ELSE <<>>]

\* _get_user_for_phone: the first active user whose profile has one of the candidates
_get_user_for_phone(normalized_phone) ==
  LET found == {u \in Users : ProfilePhone[u] \in _candidate_phone_values(normalized_phone)}
  IN IF found = {} THEN None ELSE Min(found)

\* the spellings of a phone number a client sends
PhoneInputs == {PH_LOCAL, PH_DASHED, PH_OTHER, <<"0", "9", "1">>, <<>>}

Codes == {"123456", "654321"}

\* the codes random.randint draws in the model
NewCodes == {"123456"}

\* how long the clock may run between two requests
TickSteps == {100, 200}

OtpRequests == [phone_number : PhoneInputs, sms_fails : BOOLEAN]

VerifyRequests == [phone_number : {PH_LOCAL}, code : Codes \cup {""}] \cup [phone_number : {PH_TEN}, code : {"123456"}]

\* LoginOTP.objects.filter(phone_number=)
ForPhone(rows, phone) == {o \in rows : o.phone_number = phone}

\* LoginOTP.objects.filter(phone_number=, is_used=False)
Unused(rows, phone) == {o \in rows : o.phone_number = phone /\ ~o.is_used}

\* order_by('-created_at').first(); created_at has microseconds, so of two
\* rows the one inserted later is the later one
Latest(rows) == CHOOSE o \in rows : \A p \in rows : p.created_at < o.created_at \/ (p.created_at = o.created_at /\ p.id <= o.id)

\* update(is_used=True) on the rows of a set
MarkUsed(rows, which) == {IF o \in which THEN [o EXCEPT !.is_used = TRUE] ELSE o : o \in rows}

\* LoginOTP.create_for_phone
create_for_phone(id, phone_number, code, ttl_seconds) == [id |-> id, phone_number |-> phone_number, code |-> code, created_at |-> now, expires_at |-> now + ttl_seconds, attempt_count |-> 0, is_used |-> FALSE]

\* the codes that stay unused after a new code was created, without the second update
KeepOlderCodes(rows, otp) == rows \cup {otp}

\* the codes after a new code was created: every other unused code of the phone is marked used
RetireOlderCodes(rows, otp) == MarkUsed(rows, Unused(rows, otp.phone_number)) \cup {otp}

request_login_otp(req) ==
  LET normalized == normalize_phone_number(req.phone_number)
      unused == Unused(otps, normalized)
      fails == IF req.phone_number = <<>> THEN 400
               ELSE IF normalized = <<>> \/ Len(digits(normalized)) < 10 THEN 400
               ELSE IF _get_user_for_phone(normalized) = None THEN 404
               ELSE IF unused # {} /\ now - Latest(unused).created_at < OTP_RESEND_INTERVAL THEN 429
               ELSE 0
      expired == MarkUsed(otps, {o \in ForPhone(otps, normalized) : o.expires_at < now})
  IN \E code \in NewCodes :
       LET otp == create_for_phone(nextOtpId, normalized, code, OTP_CODE_TTL)
           retired == RetireOlderCodes(expired, otp)
       IN /\ fails = 0 => nextOtpId <= MaxOtp
          /\ otps' = IF fails # 0 THEN otps ELSE IF req.sms_fails THEN retired \ {otp} ELSE retired
          /\ nextOtpId' = IF fails # 0 THEN nextOtpId ELSE nextOtpId + 1
          /\ last' = IF fails # 0 THEN [op |-> "request_otp", status |-> fails, phone_number |-> normalized]
                     ELSE IF req.sms_fails THEN [op |-> "request_otp", status |-> 400, phone_number |-> normalized, deleted |-> otp.id]
                     ELSE [op |-> "request_otp", status |-> 200, phone_number |-> normalized, otp |-> otp.id]
          /\ UNCHANGED <<now, planVars, courseVars, workers>>

\* the test after mark_attempt, one attempt late
OneMoreAttempt(attempt_count) == attempt_count > OTP_MAX_ATTEMPTS

\* the test after mark_attempt
TooManyAttempts(attempt_count) == attempt_count >= OTP_MAX_ATTEMPTS

\* LoginOTP.has_expired
has_expired(otp) == now >= otp.expires_at

verify_login_otp(req) ==
  LET normalized == normalize_phone_number(req.phone_number)
      rows == ForPhone(otps, normalized)
      otp == Latest(rows)
      tried == [otp EXCEPT !.attempt_count = @ + 1]
      outcome == IF req.phone_number = <<>> \/ req.code = "" THEN [status |-> 400, rows |-> otps, user |-> None]
                 ELSE IF rows = {} THEN [status |-> 400, rows |-> otps, user |-> None]
                 ELSE IF otp.is_used \/ has_expired(otp) THEN [status |-> 400, rows |-> MarkUsed(otps, {otp}), user |-> None]
                 ELSE IF otp.code # req.code THEN
                        IF TooManyAttempts(tried.attempt_count) THEN [status |-> 429, rows |-> (otps \ {otp}) \cup {[tried EXCEPT !.is_used = TRUE]}, user |-> None]
                        ELSE [status |-> 400, rows |-> (otps \ {otp}) \cup {tried}, user |-> None]
                 ELSE IF _get_user_for_phone(normalized) = None THEN [status |-> 404, rows |-> MarkUsed(otps, {otp}), user |-> None]
                 ELSE [status |-> 200, rows |-> MarkUsed(otps, {otp}), user |-> _get_user_for_phone(normalized)]
  IN /\ otps' = outcome.rows
     /\ last' = [op |-> "verify_otp", status |-> outcome.status, phone_number |-> normalized, code |-> req.code, user |-> outcome.user]
     /\ UNCHANGED <<nextOtpId, now, planVars, courseVars, workers>>

\* timezone.now() grows between two requests
Tick(step) ==
  /\ now + step <= MaxTime
  /\ now' = now + step
  /\ last' = [op |-> "tick"]
  /\ UNCHANGED <<otps, nextOtpId, planVars, courseVars, workers>>

\* ------------------------------------------- handlers served concurrently
\* Each query of a handler is one step; the object a handler has read stays
\* in workers[w] until the handler writes it back.
Idle(w) == workers[w].pc = "idle"

\* save_weekly_report up to the SELECT of get_or_create
SaveLookup(w, req) ==
  /\ Idle(w)
  /\ LET m == Matching(reports, req.student_id, req.week_start)
     IN workers' = [workers EXCEPT ![w] = IF req.student_id \notin Students \/ Cardinality(m) > 1 THEN [pc |-> "done", op |-> "save", status |-> "error"] ELSE IF m = {} THEN [pc |-> "create", req |-> req] ELSE [pc |-> "body", req |-> req, report |-> CHOOSE i \in m : TRUE, created |-> FALSE, object |-> reports[CHOOSE i \in m : TRUE]]]
  /\ UNCHANGED <<reports, details, boxes, nextDetailId, last, catalog, courseVars, otpVars>>

\* the INSERT of get_or_create; the table has no unique index on
\* (student, week_start), so the INSERT cannot raise IntegrityError
SaveCreate(w) ==
  /\ workers[w].pc = "create"
  /\ LET req == workers[w].req
         row == NewReport(req.student_id, req.week_start, SaveDefaults(req))
     IN /\ reports' = Append(reports, row)
        /\ workers' = [workers EXCEPT ![w] = [pc |-> "body", req |-> req, report |-> Len(reports) + 1, created |-> TRUE, object |-> row]]
  /\ UNCHANGED <<details, boxes, nextDetailId, last, catalog, courseVars, otpVars>>

\* the rest of save_weekly_report
SaveFinish(w) ==
  /\ workers[w].pc = "body"
  /\ LET b == SaveBody(DB, workers[w].report, workers[w].created, workers[w].req, workers[w].object)
     IN /\ Fits(b.db)
        /\ Install(b.db)
        /\ workers' = [workers EXCEPT ![w] = [pc |-> "done", op |-> "save", status |-> b.status, report |-> workers[w].report, created |-> workers[w].created]]
  /\ UNCHANGED <<last, catalog, courseVars, otpVars>>

\* log_weekly_report_action up to WeeklyReport.objects.get(pk=report_id)
LogLoad(w, req) ==
  /\ Idle(w)
  /\ workers' = [workers EXCEPT ![w] = IF req.report_id \in DOMAIN reports /\ MayLog(req.user, reports[req.report_id]) THEN [pc |-> "append", req |-> req, object |-> reports[req.report_id]] ELSE [pc |-> "done", op |-> "log", status |-> "error"]]
  /\ UNCHANGED <<reports, details, boxes, nextDetailId, last, catalog, courseVars, otpVars>>

\* append_report_log: the entry is appended to the list of the object and
\* report.save(update_fields=["logs"]) writes the whole list
LogWrite(w) ==
  /\ workers[w].pc = "append"
  /\ TotalLog + 1 <= MaxLog
  /\ LET req == workers[w].req
     IN /\ reports' = [reports EXCEPT ![req.report_id].logs = append_report_log(workers[w].object.logs, req.action, req.additional_data, req.user)]
        /\ workers' = [workers EXCEPT ![w] = [pc |-> "done", op |-> "log", status |-> "success", report |-> req.report_id, entry |-> LogEntry(req.action, req.additional_data, req.user)]]
  /\ UNCHANGED <<details, boxes, nextDetailId, last, catalog, courseVars, otpVars>>

\* the requests of two staff users who assign students at the same time
RaceSlotRequests == {r \in SlotRequests : r.user = 2 /\ r.end_time = <<11, 0>>}

RaceAssignRequests == [user : {2}, student_id : Students, advisor_id : Advisors, day_of_week : {"Saturday", "Sunday"}, start_time : {<<10, 0>>}, start_date : {0}]

\* assign_student_view up to the test of existing_assignments; transaction.atomic
\* takes no lock on the courses it counts
AssignCheck(w, req) ==
  /\ Idle(w)
  /\ LET fails == AssignFails(slots, courses, req)
     IN workers' = [workers EXCEPT ![w] = IF fails # 0 THEN [pc |-> "done", op |-> "assign", status |-> fails] ELSE [pc |-> "insert", req |-> req]]
  /\ UNCHANGED <<last, planVars, courseVars, otpVars>>

\* Course.objects.create and the four sessions; the table of the courses has
\* no constraint on (advisor, day_of_week, start_time)
AssignCreate(w) ==
  /\ workers[w].pc = "insert"
  /\ Len(courses) < MaxCourse
  /\ LET req == workers[w].req
     IN /\ courses' = Append(courses, NewCourse(req))
        /\ sessions' = sessions \cup NewSessions(Len(courses) + 1, req.start_date)
        /\ workers' = [workers EXCEPT ![w] = [pc |-> "done", op |-> "assign", status |-> 201, course |-> Len(courses) + 1, req |-> req]]
  /\ UNCHANGED <<slots, nextSlotId, notifications, last, planVars, otpVars>>

\* ---------------------------------------------------------- specification
\* no availability, course, session or notification yet
NoCourses == slots = {} /\ nextSlotId = 1 /\ courses = <<>> /\ sessions = {} /\ notifications = <<>>

\* no login code yet
NoOtps == otps = {} /\ nextOtpId = 1 /\ now = 0

Init ==
  /\ reports = <<>>
  /\ details = {}
  /\ boxes = <<>>
  /\ nextDetailId = 1
  /\ last = [op |-> "none"]
  /\ workers = [w \in Workers |-> [pc |-> "idle"]]
  /\ catalog = OneLessonCatalog
  /\ NoCourses
  /\ NoOtps

Save == \E req \in SaveRequests : save_weekly_report(req)

CopyDay == \E req \in CopyRequests : copy_day_plan(req)

Next == Save \/ CopyDay

\* any sequence of save and copy operations, one after another
Spec == Init /\ [][Next]_vars

LogSave == \E req \in LogSaveRequests : save_weekly_report(req)

LogCopyDay == \E req \in LogCopyRequests : copy_day_plan(req)

GetDetails == \E req \in DetailsRequests : get_weekly_report_details(req)

LogAction == \E req \in LogRequests : log_weekly_report_action(req)

NextLog == LogSave \/ LogCopyDay \/ GetDetails \/ LogAction

\* any sequence of the four operations that touch the log of a report
SpecLog == Init /\ [][NextLog]_vars

\* the saves that race for one key
RaceRequests == {r \in LogSaveRequests : r.week_start = 0}

\* a report saved before the concurrent requests arrive
Prologue == (\A w \in Workers : Idle(w)) /\ \E req \in RaceRequests : save_weekly_report(req)

RaceLookup == \E w \in Workers, req \in RaceRequests : SaveLookup(w, req)

RaceCreate == \E w \in Workers : SaveCreate(w)

RaceFinish == \E w \in Workers : SaveFinish(w)

RaceLogLoad == \E w \in Workers, req \in LogRequests : LogLoad(w, req)

RaceLogWrite == \E w \in Workers : LogWrite(w)

NextRace == Prologue \/ RaceLookup \/ RaceCreate \/ RaceFinish \/ RaceLogLoad \/ RaceLogWrite

\* two requests served at the same time, each handler advancing query by query
SpecRace == Init /\ [][NextRace]_vars

QuerySave == \E req \in QuerySaveRequests : save_weekly_report(req)

CheckReport == \E req \in CheckRequests : check_weekly_report(req)

LastReport == \E req \in LastRequests : get_last_weekly_report(req)

NextQuery == QuerySave \/ CheckReport \/ LastReport

\* saves of several weeks, and the two lookups asked between them
SpecQuery == Init /\ [][NextQuery]_vars

\* any catalog of lessons and chapters
InitCatalog ==
  /\ reports = <<>>
  /\ details = {}
  /\ boxes = <<>>
  /\ nextDetailId = 1
  /\ last = [op |-> "none"]
  /\ workers = [w \in Workers |-> [pc |-> "idle"]]
  /\ catalog \in CatalogInputs
  /\ NoCourses
  /\ NoOtps

SortLessonsFor == \E student \in Students : SortLessons(student)

GetLessons == \E req \in LastRequests : get_lessons_for_student(req)

NextCatalog == SortLessonsFor \/ GetLessons

\* the two lesson lists asked for over any catalog
SpecCatalog == InitCatalog /\ [][NextCatalog]_vars

\* any table of chapters for two lessons
InitChapters ==
  /\ reports = <<>>
  /\ details = {}
  /\ boxes = <<>>
  /\ nextDetailId = 1
  /\ last = [op |-> "none"]
  /\ workers = [w \in Workers |-> [pc |-> "idle"]]
  /\ catalog \in ChapterCatalogInputs
  /\ NoCourses
  /\ NoOtps

GetChapters == \E req \in ChapterRequests : get_chapters(req)

NextChapters == GetChapters

\* the chapter list asked for over any table of chapters
SpecChapters == InitChapters /\ [][NextChapters]_vars

AddAvailability == \E req \in SlotRequests : admin_advisor_add_availability(req)

DeleteAvailability == \E req \in DeleteSlotRequests : admin_advisor_delete_availability(req)

AssignStudent == \E req \in AssignRequests : assign_student_view(req)

UpdateCourse == \E req \in CourseUpdateRequests : CourseUpdate(req)

NextCourse == AddAvailability \/ DeleteAvailability \/ AssignStudent \/ UpdateCourse

\* any sequence of the four operations on the slots and the courses
SpecCourse == Init /\ [][NextCourse]_vars

SessionSlot == \E req \in SessionSlotRequests : admin_advisor_add_availability(req)

SessionAssign == \E req \in SessionAssignRequests : assign_student_view(req)

Reschedule == \E req \in RescheduleRequests : CourseUpdate(req)

UpdateSession == \E req \in SessionUpdateRequests : SessionUpdate(req)

NextSession == SessionSlot \/ SessionAssign \/ Reschedule \/ UpdateSession

\* courses are created, and their sessions are updated in any order
SpecSession == Init /\ [][NextSession]_vars

AssignRaceSlot == \E req \in RaceSlotRequests : admin_advisor_add_availability(req)

AssignRaceCheck == \E w \in Workers, req \in RaceAssignRequests : AssignCheck(w, req)

AssignRaceCreate == \E w \in Workers : AssignCreate(w)

NextAssignRace == AssignRaceSlot \/ AssignRaceCheck \/ AssignRaceCreate

\* two assign_student requests, their queries interleaved
SpecAssignRace == Init /\ [][NextAssignRace]_vars

RequestOtp == \E req \in OtpRequests : request_login_otp(req)

VerifyOtp == \E req \in VerifyRequests : verify_login_otp(req)

Wait == \E step \in TickSteps : Tick(step)

NextOtp == RequestOtp \/ VerifyOtp \/ Wait

\* codes are requested and tried, one request after another, as time passes
SpecOtp == Init /\ [][NextOtp]_vars

\* ------------------------------------------------------------------ claims
Range(f) == {f[i] : i \in DOMAIN f}

IsPrefix(s, t) == Len(s) <= Len(t) /\ SubSeq(t, 1, Len(s)) = s

ReportDetails(ds, rid) == {d \in ds : d.report = rid}

SaveUpdated(l) == l.op = "save" /\ l.status = "success" /\ ~l.created

\* C1: after any sequence of saves and copies there is at most one
\* WeeklyReport for each (student, week_start)
OneReportPerKey == \A i, j \in DOMAIN reports : (reports[i].student = reports[j].student /\ reports[i].week_start = reports[j].week_start) => i = j

\* a save has found the report of its key and updated it
SavedExistingKey == SaveUpdated(last) /\ Len(reports) = 2

\* C2: when two saves for the same key, started while the key has no report,
\* have both finished, the key has exactly one report
RaceLeavesOneReport == (\A w \in Workers : workers[w].pc = "done" /\ workers[w].op = "save") => Cardinality(Matching(reports, 1, 0)) = 1

\* C3: a save that returns an error leaves the detail rows as they were
FailedSaveKeepsDetails == [][(last'.op = "save" /\ last'.status = "error") => details' = details]_vars

\* C4: every operation leaves the log of every report a prefix of the log
\* the report has afterwards
LogAppendOnly == [][\A i \in DOMAIN reports : i \in DOMAIN reports' /\ IsPrefix(reports[i].logs, reports'[i].logs)]_vars

\* a report was saved, and a later operation appended to its log
LogGrewAfterSave == last.op \in {"details", "log"} /\ last.status = "success" /\ Len(reports[last.report].logs) >= 3

\* C5: when two log_weekly_report_action requests on the same report have
\* both finished, the entry of each is in the stored log
BothAppendsStored == (\A w \in Workers : workers[w].pc = "done" /\ workers[w].op = "log" /\ workers[w].status = "success" /\ workers[w].report = workers[1].report) => \A w \in Workers : workers[w].entry \in Range(reports[workers[w].report].logs)

\* the detail rows a request asks for, without ids
RequestedRows(req, rid) == {[fields |-> DetailFields(rid, req.week_start, it), box |-> BuildBox(it.task)] : it \in Range(TaskItems(req.days))}

StoredRows(ds, bs, rid) == {[fields |-> [report |-> d.report, start_time |-> d.start_time, end_time |-> d.end_time, day_of_week |-> d.day_of_week, is_disabled |-> d.is_disabled], box |-> bs[d.box]] : d \in ReportDetails(ds, rid)}

\* C6: a successful save on an existing report leaves exactly the rows of
\* the new request, and none of the rows the report had before
SaveReplacesDetails == [][SaveUpdated(last') => /\ \A d \in ReportDetails(details', last'.report) : d.id \notin {e.id : e \in details}
                                               /\ StoredRows(details', boxes', last'.report) = RequestedRows(last'.req, last'.report)
                                               /\ Cardinality(ReportDetails(details', last'.report)) = Len(TaskItems(last'.req.days))]_vars

\* a save replaced the rows of a report: the report has rows and the box of
\* an earlier row is left without a row
ReplacedOldDetails == SaveUpdated(last) /\ ReportDetails(details, last.report) # {} /\ \E b \in DOMAIN boxes : \A d \in details : d.box # b

\* C7: after a successful save on an existing report the stored report has
\* the week_end, the disabled days and the important_events of the request
UpdateStoresRequest == SaveUpdated(last) => /\ reports[last.report].week_end = last.req.week_end
                                           /\ reports[last.report].disabled_days = JoinDisabled(last.req.days)
                                           /\ reports[last.report].important_events = last.req.important_events

\* C8: the start and the end of every detail placed on one of the seven
\* weekdays fall on week_start of its report + the offset of that weekday
DetailOnItsWeekday == \A d \in details : d.day_of_week \in WeekdaySet => /\ d.start_time.date = reports[d.report].week_start + weekday_offset[d.day_of_week]
                                                                       /\ d.end_time.date = reports[d.report].week_start + weekday_offset[d.day_of_week]

\* C9: every Box of the event type has no lesson, no chapter, zero
\* duration, zero optional tests and is_default set
EventBoxShape == \A b \in DOMAIN boxes : boxes[b].box_type = "event" => (boxes[b].lesson = None /\ boxes[b].chapter = None /\ boxes[b].duration_minutes = 0 /\ boxes[b].optional_tests_count = 0 /\ boxes[b].is_default)

\* C10: no two detail rows reference the same Box
BoxNeverShared == \A d, e \in details : d.box = e.box => d = e

\* a copy has put rows into a report while another report has rows
CopiedAcrossReports == last.op = "copy" /\ last.status = "success" /\ last.copied >= 1 /\ \E d, e \in details : d.report = last.report /\ e.report # last.report

\* the report and the day a copy request reads
SourceReport(rs, req) == Min(Covering(rs, req.source_student_id, req.source_date))

SourceDay(req) == persian_weekday_mapping[weekday(req.source_date)]

CopySucceeded(l) == l.op = "copy" /\ l.status = "success"

\* C11: a copy of a source day with N rows leaves N rows on the target day
\* of the target report, each with a Box created by the copy; the rows the
\* target day had are gone and the other days of the target report are as
\* they were
CopyMakesNRows == [][CopySucceeded(last') => LET req == last'.req
                                                 source == DayDetails(details, SourceReport(reports, req), SourceDay(req))
                                                 target == DayDetails(details', last'.report, req.target_day_of_week)
                                             IN /\ Cardinality(target) = Cardinality(source)
                                                /\ \A d \in target : d.box > Len(boxes) /\ d.id >= nextDetailId
                                                /\ {d \in ReportDetails(details', last'.report) : d.day_of_week # req.target_day_of_week} = {d \in ReportDetails(details, last'.report) : d.day_of_week # req.target_day_of_week}]_vars

\* C12: a copy whose source student has no report covering source_date, or
\* no rows on the weekday of source_date, answers an error and changes no
\* report, no detail row and no log
NoSource(req) == Covering(reports, req.source_student_id, req.source_date) = {} \/ DayDetails(details, SourceReport(reports, req), SourceDay(req)) = {}

CopyWithoutSourceFails == [][/\ CopySucceeded(last') => ~NoSource(last'.req)
                             /\ (last'.op = "copy" /\ ~CopySucceeded(last')) => (last'.status = "error" /\ UNCHANGED <<reports, details, boxes, nextDetailId>>)]_vars

\* a copy was refused for lack of source rows while the source student has a report
CopyRefusedNoDetails == last.op = "copy" /\ last.status = "error" /\ last.error = "no details" /\ reports # <<>>

\* C13: the log of a report that only saves have touched is "created",
\* "details saved", then "updated", "details saved" for every later save:
\* two entries for each successful save
Actions(logs) == [i \in DOMAIN logs |-> logs[i].action]

SaveCount(logs) == Cardinality({i \in DOMAIN logs : logs[i].action = "Report details saved"})

SaveOnlyLogShape == \A r \in DOMAIN reports : (\A i \in DOMAIN reports[r].logs : reports[r].logs[i].action # "Copied day plan") =>
                      /\ Len(reports[r].logs) = 2 * SaveCount(reports[r].logs)
                      /\ \A i \in DOMAIN reports[r].logs : reports[r].logs[i].action = (IF i = 1 THEN "Report created" ELSE IF i % 2 = 0 THEN "Report details saved" ELSE "Report updated")

\* C18: the day_of_week of every detail row is one of the seven weekday names
DayNameIsWeekday == \A d \in details : d.day_of_week \in WeekdaySet

\* the reports of a student that contain a date
Containing(student, date) == {r \in DOMAIN reports : reports[r].student = student /\ reports[r].week_start <= date /\ date <= reports[r].week_end}

\* the reports of a student that start after a date
StartingAfter(student, date) == {r \in DOMAIN reports : reports[r].student = student /\ date < reports[r].week_start}

Checked == last.op = "check" /\ last.status = 200

\* C14: check_weekly_report answers exactly one of current, future and
\* none, and answers current exactly when a report of the student has
\* week_start <= date <= week_end
CurrentIffContained == Checked => /\ last.body.exists \in {"current", "future", "false"}
                                  /\ last.body.exists = "current" <=> Containing(last.req.student_id, last.req.selected_date) # {}

\* the date asked about is the last day of the only report that contains it
CheckedOnWeekEnd == Checked /\ last.body.exists = "current" /\ \E r \in Containing(last.req.student_id, last.req.selected_date) : reports[r].week_end = last.req.selected_date

\* C15: when no report of the student contains the date, the answer is
\* future with the bounds of the report of smallest week_start after the
\* date if there is one, and none only when there is no such report
FutureIsNearest == (Checked /\ Containing(last.req.student_id, last.req.selected_date) = {}) =>
                     IF StartingAfter(last.req.student_id, last.req.selected_date) = {} THEN last.body.exists = "false"
                     ELSE /\ last.body.exists = "future"
                          /\ \E r \in StartingAfter(last.req.student_id, last.req.selected_date) :
                               /\ \A q \in StartingAfter(last.req.student_id, last.req.selected_date) : reports[r].week_start <= reports[q].week_start
                               /\ last.body.week_start = reports[r].week_start
                               /\ last.body.week_end = reports[r].week_end

\* future was answered for a student with two reports after the date, the
\* later one saved first
NearestOfTwoFuture == Checked /\ last.body.exists = "future" /\ \E r, q \in StartingAfter(last.req.student_id, last.req.selected_date) : r < q /\ reports[q].week_start < reports[r].week_start

Listed == last.op = "latest" /\ last.status = 200

\* the lesson rows of the report of a student with the greatest week_start
NewestLessonRows(student) == {d \in details : /\ reports[d.report].student = student
                                               /\ \A r \in DOMAIN reports : reports[r].student = student => reports[r].week_start <= reports[d.report].week_start
                                               /\ boxes[d.box].lesson # None}

\* C16: the day_of_week of every task of get_last_weekly_report is the
\* weekday name of the calendar day of the start time of its detail, which
\* for a detail written by save_weekly_report is the day name of the detail
TaskDayIsDetailDay == Listed => \A i \in DOMAIN last.tasks : LET d == ById(NewestLessonRows(last.req.student_id))[i]
                                                             IN /\ last.tasks[i].day_of_week = persian_weekday_mapping[weekday(d.start_time.date)]
                                                                /\ last.tasks[i].day_of_week = d.day_of_week

\* C17: get_last_weekly_report returns one task for each lesson row of the
\* report of the student with the greatest week_start and nothing else, and
\* no task when the student has no report
OnlyNewestLessonRows == Listed => /\ Len(last.tasks) = Cardinality(NewestLessonRows(last.req.student_id))
                                  /\ \A i \in DOMAIN last.tasks : LET d == ById(NewestLessonRows(last.req.student_id))[i]
                                                                  IN last.tasks[i].lesson_id = boxes[d.box].lesson /\ last.tasks[i].chapter_id = boxes[d.box].chapter /\ last.tasks[i].duration_minutes = boxes[d.box].duration_minutes

\* a task was returned for a student who also has an older report with a lesson row
ListedNewerOfTwo == Listed /\ last.tasks # <<>> /\ \E d \in details : reports[d.report].student = last.req.student_id /\ boxes[d.box].lesson # None /\ d \notin NewestLessonRows(last.req.student_id)

\* C19: every Box whose type is not the event type references a Lesson
NonEventBoxHasLesson == \A b \in DOMAIN boxes : boxes[b].box_type # "event" => boxes[b].lesson # None

\* the lesson ids of the two lists of the last answer
SpecializedIds == IF last.op = "sort" THEN Range(last.specialized_lessons) ELSE {l.id : l \in Range(last.specialized_lessons)}

GeneralIds == IF last.op = "sort" THEN Range(last.general_lessons) ELSE {l.id : l \in Range(last.general_lessons)}

ListsReturned == (last.op = "sort" /\ last.status = "returned") \/ (last.op = "lessons" /\ last.status = 200)

\* C20: no lesson is in both the specialized list and the general list of
\* a student, and no list holds a lesson twice
ListsDisjoint == ListsReturned => /\ SpecializedIds \cap GeneralIds = {}
                                  /\ Cardinality(SpecializedIds) = Len(last.specialized_lessons)
                                  /\ Cardinality(GeneralIds) = Len(last.general_lessons)

\* both lists of an answer hold a lesson
BothListsFilled == ListsReturned /\ SpecializedIds # {} /\ GeneralIds # {}

\* the student of the last answer and the lesson ids of its lists, in order
ListStudent == IF last.op = "sort" THEN last.student ELSE last.req.student_id

SpecializedSeq == IF last.op = "sort" THEN last.specialized_lessons ELSE [i \in DOMAIN last.specialized_lessons |-> last.specialized_lessons[i].id]

GeneralSeq == IF last.op = "sort" THEN last.general_lessons ELSE [i \in DOMAIN last.general_lessons |-> last.general_lessons[i].id]

\* the rank of a lesson against a subject list: place of its name, then 12 < 11 < 10
Rank(list, lesson) == <<index(list, catalog.lessons[lesson].name), grade_idx(catalog.lessons[lesson].grade)>>

Ascending(list, lessons) == \A i, j \in DOMAIN lessons : i < j => ~KeyLess(Rank(list, lessons[j]), Rank(list, lessons[i]))

\* C21: the specialized list is in the order of (place of the name in the
\* subject list of the major, grade rank) and the general list in the order
\* of (place of the name in the general subject list, grade rank)
ListsSortedByRank == ListsReturned => /\ Ascending(MAJOR_SUBJECTS[StudentMajor[ListStudent]], SpecializedSeq)
                                      /\ Ascending(GENERAL_SUBJECTS, GeneralSeq)

\* a chapter of the lesson has a track with T, R or E in it, in either case
TrackTagged(lesson) == \E c \in LessonChapters(catalog, lesson) : \E code \in {"T", "R", "E"} : IContains(catalog.chapters[c].track, code)

\* C22: sort_lessons_for_student puts no lesson in the general list unless
\* a chapter of the lesson has a track with T, R or E in it
GeneralOnlyTagged == (last.op = "sort" /\ last.status = "returned") => \A l \in Range(last.general_lessons) : TrackTagged(l)

\* the chapter rows a get_chapters request asks for
Asked(req) == {c \in DOMAIN catalog.chapters : /\ catalog.chapters[c].lesson = req.lesson_id
                                               /\ catalog.lessons[req.lesson_id].grade = req.grade
                                               /\ (req.major_code = "T" => catalog.chapters[c].track = "T")}

\* C23: get_chapters returns only chapters of the lesson and grade (and of
\* the track when a major_code is given), in the order of chapter_number,
\* one entry for every (chapter_number, name) pair among them and never two
ChaptersOrderedOnce == last.op = "chapters" =>
                         LET l == last.chapter_list
                         IN /\ \A i \in DOMAIN l : l[i].id \in Asked(last.req) /\ l[i].text = <<catalog.chapters[l[i].id].chapter_number, " - ", catalog.chapters[l[i].id].name>>
                            /\ \A i, j \in DOMAIN l : i < j => (l[i].text[1] <= l[j].text[1] /\ l[i].text # l[j].text)
                            /\ \A c \in Asked(last.req) : \E i \in DOMAIN l : l[i].text[1] = catalog.chapters[c].chapter_number /\ l[i].text[3] = catalog.chapters[c].name

\* rows with the same number and name were asked for and one was kept, beside another entry
DuplicatesCollapsed == last.op = "chapters" /\ Len(last.chapter_list) > 1 /\ Cardinality(Asked(last.req)) > Len(last.chapter_list)

\* C30: the log of every report is not empty and starts with the
\* "Report created" entry of the user who created the report
LogStartsWithCreated == \A r \in DOMAIN reports : /\ reports[r].logs # <<>>
                                                  /\ reports[r].logs[1].action = "Report created"
                                                  /\ reports[r].logs[1].user \in Users

\* C24: on every slot (advisor, day, start time) with an active course
\* there is an availability, and its max_students is at least the number of
\* the active courses
SlotCapacityKept == \A c \in DOMAIN courses : courses[c].is_active =>
                      \E a \in slots : /\ a.advisor = courses[c].advisor /\ a.day_of_week = courses[c].day_of_week /\ a.start_time = courses[c].start_time
                                       /\ Cardinality({d \in DOMAIN courses : courses[d].is_active /\ courses[d].advisor = a.advisor /\ courses[d].day_of_week = a.day_of_week /\ courses[d].start_time = a.start_time}) <= a.max_students

\* the sessions of a course
CourseSessions(course) == {s \in sessions : s.course = course}

\* session n of the course is dated start_date + 7 * (n - 1)
WeeklyDates(course) == \A s \in CourseSessions(course) : s.date = courses[course].start_date + 7 * (s.session_number - 1)

\* C26: a course that assign_student_view has just created has the four
\* sessions 1 to 4, a week apart from its start_date on, and the sessions of
\* a course whose schedule CourseViewSet.update has just changed are a week
\* apart from its new start_date on
SessionsFollowStartDate == /\ (last.op = "assign" /\ last.status = 201) =>
                                /\ {s.session_number : s \in CourseSessions(last.course)} = 1..4
                                /\ Cardinality(CourseSessions(last.course)) = 4
                                /\ WeeklyDates(last.course)
                           /\ (last.op = "course_update" /\ last.status = 200 /\ last.schedule_changed) => WeeklyDates(last.course)

\* a schedule change has just moved the start of a course to another date
StartDateMoved == last.op = "course_update" /\ last.status = 200 /\ last.schedule_changed /\ \E s \in CourseSessions(last.course) : s.session_number = 1 /\ s.date \in {7, 8}

\* the notifications sent for a course
Sent(notes, course) == {i \in DOMAIN notes : notes[i].course = course}

\* C27: no course ever has two payment notifications; a notification is
\* created only by a session update that takes session 4 of the course from
\* not completed to completed, leaves no session of the course incomplete
\* and finds payment_notification_sent false
NotifiedOnceAtTheEnd == [][/\ \A c \in DOMAIN courses' : Cardinality(Sent(notifications', c)) <= 1
                           /\ notifications' # notifications =>
                                /\ Len(notifications') = Len(notifications) + 1 /\ SubSeq(notifications', 1, Len(notifications)) = notifications
                                /\ LET c == notifications'[Len(notifications')].course
                                   IN /\ last'.op = "session_update" /\ last'.status = 200 /\ last'.course = c /\ last'.session_number = 4
                                      /\ \E s \in sessions : s.course = c /\ s.session_number = 4 /\ ~s.is_completed
                                      /\ \A s \in sessions' : s.course = c => s.is_completed
                                      /\ ~courses[c].payment_notification_sent /\ courses'[c].payment_notification_sent]_vars

\* session 4 of a course was completed again after its notification, and nothing was sent
CompletedAgainSilently == last.op = "session_update" /\ last.status = 200 /\ last.session_number = 4 /\ ~last.was_completed /\ ~last.notified
                          /\ (\A s \in sessions : s.course = last.course => s.is_completed) /\ Cardinality(Sent(notifications, last.course)) = 1

\* the requests that created a course on the slot of an availability
Winners(a) == {w \in Workers : workers[w].pc = "done" /\ workers[w].status = 201 /\ workers[w].req.advisor_id = a.advisor /\ workers[w].req.day_of_week = a.day_of_week /\ parse_time_string(workers[w].req.start_time) = a.start_time}

\* C25: of the concurrent assign_student requests for one slot, no more
\* create a course than the slot had free places, and the slot never holds
\* more active courses than max_students
OnePlaceOneCourse == \A a \in slots : /\ Cardinality(Winners(a)) <= a.max_students
                                      /\ Cardinality(ActiveCourses(courses, a.advisor, a.day_of_week, a.start_time)) <= a.max_students

AskedTooSoon == last.op = "request_otp" /\ last.status = 429 /\ Unused(otps, last.phone_number) # {}

\* C29: a code with five wrong attempts is used; a used code stays used; a
\* verify_login_otp that finds the latest code of the phone number used logs
\* nobody in, whatever code it sends; a wrong code is counted on the latest
\* code or leaves it used; the code that logs a user in is used afterwards
UsedCodeRejected == [][/\ \A o \in otps' : o.attempt_count >= 5 => o.is_used
                       /\ \A o \in otps, p \in otps' : (o.id = p.id /\ o.is_used) => p.is_used
                       /\ (last'.op = "verify_otp" /\ ForPhone(otps, last'.phone_number) # {}) =>
                            LET otp == Latest(ForPhone(otps, last'.phone_number))
                                after == CHOOSE p \in otps' : p.id = otp.id
                            IN /\ otp.is_used => (last'.status # 200 /\ last'.user = None /\ otps' = otps)
                               /\ last'.code \notin {"", otp.code} => (last'.status # 200 /\ (after.is_used \/ after.attempt_count = otp.attempt_count + 1))
                               /\ last'.status = 200 => (last'.code = otp.code /\ ~otp.is_used /\ after.is_used)]_vars

\* the right code was sent after five wrong ones, before the code expired, and was refused
RightCodeTooLate == /\ last.op = "verify_otp" /\ last.status = 400
                    /\ \E o \in otps : o.phone_number = last.phone_number /\ o.code = last.code /\ o.attempt_count = 5 /\ o.is_used /\ now < o.expires_at

\* a user logged in with a code, and the code is used
LoggedInOnce == last.op = "verify_otp" /\ last.status = 200 /\ last.user # None

====
